---- MODULE Spec2Model ----
(***************************************************************************)
(* A model of the transaction, selection and block-storage core of the     *)
(* blockchain node:                                                        *)
(*   foundation/blockchain/database/transaction.go   (Tx, SignedTx)        *)
(*   foundation/blockchain/mempool/selector          (byTip, tip strategy) *)
(*   foundation/blockchain/storage/disk/disk.go      (Disk, diskIterator)  *)
(* The three packages share no state; each has a specification of its own  *)
(* (SpecTx, SpecSel, SpecStore, SpecIter, SpecConc) over its variables.    *)
(***************************************************************************)
EXTENDS Naturals, Integers, Sequences, FiniteSets

VARIABLES
    stage,      \* transaction.go: "none" | "built" (a Tx) | "signed" (a SignedTx)
    tx,         \* transaction.go:13-21, the Tx fields of the value in hand
    sig,        \* transaction.go:67-72, the V, R, S of the value in hand
    txRet,      \* the last transaction operation and what it returned
    selIn,      \* selector.go:24, the mempool snapshot and howMany handed to the strategy
    selOut,     \* selector.go:24, what the strategy returned
    files,      \* disk.go:93-97, the block files under dbPath, by block number
    last,       \* history: per number, the block of the last Write that returned nil since Reset
    faults,     \* history: what has failed so far: "io" (an open, write or remove), "marshal"
    ret,        \* the last Disk operation and what it returned
    itOn,       \* disk.go:80-82, an iterator returned by ForEach is in hand
    itCur,      \* disk.go:106, diskIterator.currentBlockNumber
    itEoc,      \* disk.go:107, diskIterator.endOfChain
    itCalls,    \* history: Next calls made on the iterator
    itOk,       \* history: Next calls that returned a block
    itFault,    \* history: a Next call of this iterator hit a read or decode failure
    cFile,      \* concurrent writers: the one block file both write
    cPc,        \* concurrent writers: each writer's position in Write
    cBlk,       \* concurrent writers: each writer's block
    cOrder      \* concurrent writers: writers in the order their f.Write ran

txVars == <<stage, tx, sig, txRet>>
selVars == <<selIn, selOut>>
storeVars == <<files, last, faults, ret>>
iterVars == <<itOn, itCur, itEoc, itCalls, itOk, itFault>>
concVars == <<cFile, cPc, cBlk, cOrder>>
vars == <<txVars, selVars, storeVars, iterVars, concVars>>

----------------------------------------------------------------------------
(* Bounds of the model.                                                    *)

\* nonce, value and tip range over 0..MaxVal; data is at most MaxVal bytes
MaxVal == 1
\* a sender has at most MaxPending transactions in the mempool
MaxPending == 2
\* block numbers range over 1..MaxNum
MaxNum == 2
\* a block holds at most MaxTxs transactions
MaxTxs == 1
\* an iterator is called at most MaxCalls times
MaxCalls == 4

----------------------------------------------------------------------------
(* Transaction model: foundation/blockchain/database/transaction.go        *)

\* transaction.go:69: "Recovery identifier, either 29 or 30 with ardanID"
ardanID == 29

ChainIDs == {1, 2}
WellFormedIDs == {"0xA", "0xB"}
AccountIDs == WellFormedIDs \cup {"bad"}
\* private keys: "kA" and "kB" own the accounts 0xA and 0xB; Sign rejects "kNil"
PrivateKeys == {"kA", "kB", "kNil"}
Vals == 0..MaxVal
Datas == UNION {[1..n -> {1}] : n \in 0..MaxVal}

\* the zero value Tx{} returned beside an error
ZeroTx == [chain |-> 0, nonce |-> 0, from |-> "", to |-> "", value |-> 0,
           tip |-> 0, data |-> <<>>]
\* the zero value of V, R, S (nil big integers)
ZeroSig == [v |-> 0, inRange |-> FALSE, key |-> "", digest |-> ZeroTx]

\* AccountID.IsAccountID: the well-formedness predicate of the account package
IsAccountID(id) == id \in WellFormedIDs

\* the address a private key's public key derives to
Address(key) == IF key = "kA" THEN "0xA" ELSE IF key = "kB" THEN "0xB" ELSE ""

\* signature stamp: the hash of the transaction's canonical bytes, which covers
\* every field; collision-free, so two transactions agree on it iff they agree
\* on all seven fields
Digest(t) == <<t.chain, t.nonce, t.from, t.to, t.value, t.tip, t.data>>

\* the recovery id a signature over t carries (a function of the signed digest)
RecID(t) == (t.nonce + t.value) % 2

\* signature.Sign: fails for a key it cannot use, else v = ardanID + recovery id,
\* and (r, s) bind the key and the digest signed
signatureSign(t, key) ==
    IF key = "kNil"
    THEN [err |-> "SigningFailure", sig |-> ZeroSig]
    ELSE [err |-> "nil",
          sig |-> [v |-> ardanID + RecID(t), inRange |-> TRUE, key |-> key,
                   digest |-> t]]

\* signature.VerifySignature: v is ardanID or ardanID+1 and r, s are in range
VerifySignature(s) ==
    IF s.v \in {ardanID, ardanID + 1} /\ s.inRange THEN "nil" ELSE "BadSignature"

\* signature.FromAddress: the address recovered from (tx, v, r, s). It is the
\* signer's when tx is what was signed and v is the signature's own recovery
\* id, and an unrelated address otherwise
FromAddress(t, s) ==
    IF VerifySignature(s) # "nil"
    THEN [err |-> "RecoverFailure", address |-> ""]
    ELSE IF Digest(t) = Digest(s.digest) /\ s.v = ardanID + RecID(s.digest)
         THEN [err |-> "nil", address |-> Address(s.key)]
         ELSE [err |-> "nil", address |-> "0xUnrelated"]

\* NewTx (transaction.go:24-43)
NewTxResult(chainID, nonce, fromID, toID, value, tip, data) ==
    IF ~IsAccountID(fromID)
    THEN [err |-> "InvalidFrom", tx |-> ZeroTx]
    ELSE IF ~IsAccountID(toID)
         THEN [err |-> "InvalidTo", tx |-> ZeroTx]
         ELSE [err |-> "nil",
               tx |-> [chain |-> chainID, nonce |-> nonce, from |-> fromID,
                       to |-> toID, value |-> value, tip |-> tip, data |-> data]]

\* Validate with the self-payment check moved in front of the chain-id check:
\* a fault in the order of the checks, which C1 tells from Validate
ValidateSelfPaymentFirst(t, s, chainID) ==
    IF t.from = t.to THEN "SelfPayment"
    ELSE IF t.chain # chainID THEN "ChainMismatch"
    ELSE IF ~IsAccountID(t.from) THEN "InvalidFrom"
    ELSE IF ~IsAccountID(t.to) THEN "InvalidTo"
    ELSE IF VerifySignature(s) # "nil" THEN VerifySignature(s)
    ELSE IF FromAddress(t, s).err # "nil" THEN FromAddress(t, s).err
    ELSE IF FromAddress(t, s).address # t.from THEN "SignerMismatch"
    ELSE "nil"

\* Validate with the recovered address compared with the payee, not the
\* payer: a fault C3 tells from Validate
ValidateSignerIsTo(t, s, chainID) ==
    IF t.chain # chainID THEN "ChainMismatch"
    ELSE IF ~IsAccountID(t.from) THEN "InvalidFrom"
    ELSE IF ~IsAccountID(t.to) THEN "InvalidTo"
    ELSE IF t.from = t.to THEN "SelfPayment"
    ELSE IF VerifySignature(s) # "nil" THEN VerifySignature(s)
    ELSE IF FromAddress(t, s).err # "nil" THEN FromAddress(t, s).err
    ELSE IF FromAddress(t, s).address # t.to THEN "SignerMismatch"
    ELSE "nil"

\* Validate without the comparison of the recovered address with from: a
\* fault C2 tells from Validate
ValidateNoSignerCheck(t, s, chainID) ==
    IF t.chain # chainID THEN "ChainMismatch"
    ELSE IF ~IsAccountID(t.from) THEN "InvalidFrom"
    ELSE IF ~IsAccountID(t.to) THEN "InvalidTo"
    ELSE IF t.from = t.to THEN "SelfPayment"
    ELSE IF VerifySignature(s) # "nil" THEN VerifySignature(s)
    ELSE IF FromAddress(t, s).err # "nil" THEN FromAddress(t, s).err
    ELSE "nil"

\* SignedTx.Validate (transaction.go:74-105): the error it returns
Validate(t, s, chainID) ==
    IF t.chain # chainID THEN "ChainMismatch"
    ELSE IF ~IsAccountID(t.from) THEN "InvalidFrom"
    ELSE IF ~IsAccountID(t.to) THEN "InvalidTo"
    ELSE IF t.from = t.to THEN "SelfPayment"
    ELSE IF VerifySignature(s) # "nil" THEN VerifySignature(s)
    ELSE IF FromAddress(t, s).err # "nil" THEN FromAddress(t, s).err
    ELSE IF FromAddress(t, s).address # t.from THEN "SignerMismatch"
    ELSE "nil"

NoRet == [op |-> "none", chain |-> 0, key |-> "", err |-> "nil"]

\* the transaction model touches nothing of the selector or the store
notTx == <<selVars, storeVars, iterVars, concVars>>

InitTx ==
    /\ stage = "none"
    /\ tx = ZeroTx
    /\ sig = ZeroSig
    /\ txRet = NoRet

\* a client with no transaction in hand builds one
NewTx ==
    /\ stage = "none"
    /\ \E chainID \in ChainIDs, nonce \in Vals, fromID \in AccountIDs,
       toID \in AccountIDs, value \in Vals, tip \in Vals, data \in Datas :
        LET r == NewTxResult(chainID, nonce, fromID, toID, value, tip, data) IN
        /\ tx' = r.tx
        /\ sig' = ZeroSig
        /\ stage' = IF r.err = "nil" THEN "built" ELSE "none"
        /\ txRet' = [NoRet EXCEPT !.op = "NewTx", !.err = r.err]
        /\ UNCHANGED notTx

\* Tx.Sign (transaction.go:45-61)
Sign ==
    /\ stage = "built"
    /\ \E key \in PrivateKeys :
        LET r == signatureSign(tx, key) IN
        /\ sig' = r.sig
        /\ tx' = IF r.err = "nil" THEN tx ELSE ZeroTx
        /\ stage' = IF r.err = "nil" THEN "signed" ELSE "none"
        /\ txRet' = [NoRet EXCEPT !.op = "Sign", !.key = key, !.err = r.err]
        /\ UNCHANGED notTx

TxFields == {"chain", "nonce", "from", "to", "value", "tip", "data"}

FieldValues(f) ==
    IF f = "chain" THEN ChainIDs
    ELSE IF f \in {"from", "to"} THEN AccountIDs
    ELSE IF f = "data" THEN Datas
    ELSE Vals

\* the fields in which the transaction in hand differs from the one signed
Changed == {f \in TxFields : tx[f] # sig.digest[f]}

\* The fields of a SignedTx are exported: whoever holds one (a wallet, a peer,
\* the JSON that carries it) can change a field without signing again. One
\* field of the transaction as signed is replaced.
Tamper ==
    /\ stage = "signed"
    /\ Changed = {}
    /\ \E f \in TxFields : \E x \in FieldValues(f) :
        /\ x # tx[f]
        /\ tx' = [tx EXCEPT ![f] = x]
    /\ txRet' = [NoRet EXCEPT !.op = "Tamper"]
    /\ UNCHANGED <<stage, sig, notTx>>

\* ... or replace V, or put R, S out of range
Forge ==
    /\ stage = "signed"
    /\ \E v \in {ardanID - 1, ardanID, ardanID + 1}, inRange \in BOOLEAN :
        /\ <<v, inRange>> # <<sig.v, sig.inRange>>
        /\ sig' = [sig EXCEPT !.v = v, !.inRange = inRange]
    /\ txRet' = [NoRet EXCEPT !.op = "Forge"]
    /\ UNCHANGED <<stage, tx, notTx>>

\* the node validates the signed transaction against its chain id
ValidateTx ==
    /\ stage = "signed"
    /\ \E chainID \in ChainIDs :
        txRet' = [NoRet EXCEPT !.op = "Validate", !.chain = chainID,
                               !.err = Validate(tx, sig, chainID)]
    /\ UNCHANGED <<stage, tx, sig, notTx>>

TxNext == NewTx \/ Sign \/ Tamper \/ Forge \/ ValidateTx

----------------------------------------------------------------------------
(* Claims about the transaction model.                                     *)

\* the six checks of Validate, each as a predicate of the value in hand
ChainMatches(chainID) == tx.chain = chainID
FromWellFormed == IsAccountID(tx.from)
ToWellFormed == IsAccountID(tx.to)
NotSelfPayment == tx.from # tx.to
SignatureValid == VerifySignature(sig) = "nil"
SignerIsFrom ==
    FromAddress(tx, sig).err = "nil" /\ FromAddress(tx, sig).address = tx.from

\* C1: Validate runs chain id, from, to, self-payment, signature, signer in
\* that order and returns the error of the first check that is violated; it
\* returns nil only when all six pass; it leaves the transaction as it was.
C1_FirstViolatedCheckWins ==
    [][txRet'.op = "Validate" =>
        LET chainID == txRet'.chain
            err == txRet'.err
        IN  /\ tx' = tx /\ sig' = sig /\ stage' = stage
            /\ ~ChainMatches(chainID) => err = "ChainMismatch"
            /\ ChainMatches(chainID) /\ ~FromWellFormed => err = "InvalidFrom"
            /\ ChainMatches(chainID) /\ FromWellFormed /\ ~ToWellFormed
                 => err = "InvalidTo"
            /\ ChainMatches(chainID) /\ FromWellFormed /\ ToWellFormed
                 /\ ~NotSelfPayment => err = "SelfPayment"
            /\ ChainMatches(chainID) /\ FromWellFormed /\ ToWellFormed
                 /\ NotSelfPayment /\ ~SignatureValid => err = "BadSignature"
            /\ ChainMatches(chainID) /\ FromWellFormed /\ ToWellFormed
                 /\ NotSelfPayment /\ SignatureValid /\ ~SignerIsFrom
                 => err \in {"SignerMismatch", "RecoverFailure"}
            /\ err = "nil" <=>
                 /\ ChainMatches(chainID) /\ FromWellFormed /\ ToWellFormed
                 /\ NotSelfPayment /\ SignatureValid /\ SignerIsFrom
    ]_vars

\* C1's case: a self-payment validated against another chain id fails on the
\* chain id
C1_Witness ==
    /\ txRet.op = "Validate"
    /\ tx.from = tx.to
    /\ tx.chain # txRet.chain
    /\ txRet.err = "ChainMismatch"

\* the signature in hand is the one Sign produced, untouched
SigAsSigned == sig = signatureSign(sig.digest, sig.key).sig

\* the transaction as signed, with its signature, validates on its own chain
WouldValidate ==
    /\ SigAsSigned
    /\ Validate(sig.digest, sig, sig.digest.chain) = "nil"

\* exactly one of value, nonce, to, data was changed after signing, and the
\* result was validated against the original chain id
TamperedAndValidated ==
    /\ stage = "signed"
    /\ WouldValidate
    /\ \E f \in {"value", "nonce", "to", "data"} : Changed = {f}
    /\ txRet.op = "Validate"
    /\ txRet.chain = sig.digest.chain

\* C2 as stated: a valid signed transaction with value, nonce, to or data
\* changed afterwards fails Validate with SignerMismatch or BadSignature,
\* whatever the replacement value is.
C2_TamperFailsOnSignature ==
    TamperedAndValidated => txRet.err \in {"SignerMismatch", "BadSignature"}

\* C2 amended: such a transaction always fails Validate; the error is
\* SignerMismatch or BadSignature when the transaction's to is still
\* well-formed and differs from from, the to-account format error when the new
\* to is malformed, and SelfPayment when the new to equals from.
C2_TamperFails ==
    TamperedAndValidated =>
        /\ txRet.err # "nil"
        /\ ToWellFormed /\ NotSelfPayment
             => txRet.err \in {"SignerMismatch", "BadSignature"}
        /\ ~ToWellFormed => txRet.err = "InvalidTo"
        /\ ~NotSelfPayment => txRet.err = "SelfPayment"

\* C2's case: a changed value caught by the signer comparison
C2_Witness ==
    /\ TamperedAndValidated
    /\ Changed = {"value"}
    /\ txRet.err = "SignerMismatch"

\* NewTx, then Sign, then Validate with the transaction's own chain id, from
\* and to well-formed and distinct, nothing changed in between
BuiltSignedValidated ==
    /\ stage = "signed"
    /\ Changed = {}
    /\ SigAsSigned
    /\ FromWellFormed /\ ToWellFormed /\ NotSelfPayment
    /\ txRet.op = "Validate"
    /\ txRet.chain = tx.chain

\* C3 as stated: NewTx, Sign with any key Sign accepts, Validate with the same
\* chain id returns no error.
C3_RoundTripAnyKey == BuiltSignedValidated => txRet.err = "nil"

\* C3 amended: it returns no error when the key that signed is the key of the
\* from account (and SignerMismatch for any other key Sign accepts).
C3_RoundTripOwnKey ==
    BuiltSignedValidated =>
        /\ Address(sig.key) = tx.from => txRet.err = "nil"
        /\ Address(sig.key) # tx.from => txRet.err = "SignerMismatch"

\* C3's case: a transaction signed by its payer validates
C3_Witness ==
    /\ BuiltSignedValidated
    /\ Address(sig.key) = tx.from
    /\ txRet.err = "nil"

----------------------------------------------------------------------------
(* Selection framework: foundation/blockchain/mempool/selector             *)

Senders == WellFormedIDs
Tips == 0..(MaxVal + 1)

\* the pending lists a well-formed mempool can hold for one sender: at most
\* MaxPending transactions, nonces strictly increasing
PendingLists(a) ==
    UNION {
        {l \in [1..n -> [from : {a}, nonce : 1..MaxPending, tip : Tips]] :
            \A i \in 1..n : \A j \in 1..n : i < j => l[i].nonce < l[j].nonce}
        : n \in 0..MaxPending}

\* byTip.Less (selector.go:65-67): descending tip
byTipLess(x, y) == x.tip > y.tip

\* one step of the stable sort: x, appended to the sorted s, moves left past
\* every element it is Less than and stops at the first it is not
RECURSIVE insertStable(_, _)
insertStable(s, x) ==
    IF s = <<>> THEN <<x>>
    ELSE IF byTipLess(x, s[Len(s)])
         THEN Append(insertStable(SubSeq(s, 1, Len(s) - 1), x), s[Len(s)])
         ELSE Append(s, x)

\* a stable sort of s under byTipLess
RECURSIVE sortStable(_)
sortStable(s) ==
    IF s = <<>> THEN <<>>
    ELSE insertStable(sortStable(SubSeq(s, 1, Len(s) - 1)), s[Len(s)])

\* the per-sender lists one after the other, the senders in the given order
RECURSIVE flatten(_, _)
flatten(m, order) ==
    IF order = <<>> THEN <<>>
    ELSE m[order[1]] \o flatten(m, SubSeq(order, 2, Len(order)))

\* the tip strategy: flatten, sort stably by descending tip, keep howMany
tipSelect(m, order, howMany) ==
    LET sorted == sortStable(flatten(m, order)) IN
    IF howMany >= Len(sorted) THEN sorted ELSE SubSeq(sorted, 1, howMany)

SenderOrders ==
    {o \in [1..Cardinality(Senders) -> Senders] :
        \A i, j \in 1..Cardinality(Senders) : i # j => o[i] # o[j]}

\* the snapshots a well-formed mempool can hand to the strategy
Mempools ==
    {m \in [Senders -> UNION {PendingLists(a) : a \in Senders}] :
        \A a \in Senders : m[a] \in PendingLists(a)}

NoSelection == [m |-> [a \in Senders |-> <<>>], order |-> <<>>, howMany |-> 0,
                called |-> FALSE]

InitSel ==
    /\ selIn = NoSelection
    /\ selOut = <<>>

\* the block producer holds a mempool snapshot and a count; Go ranges over the
\* map of senders in an order of its own choosing
InitSelInputs ==
    /\ selIn \in [m : Mempools, order : SenderOrders,
                  howMany : 0..(MaxPending * Cardinality(Senders)),
                  called : {FALSE}]
    /\ selOut = <<>>

notSel == <<txVars, storeVars, iterVars, concVars>>

\* the block producer calls the strategy
TipSelect ==
    /\ ~selIn.called
    /\ selIn' = [selIn EXCEPT !.called = TRUE]
    /\ selOut' = tipSelect(selIn.m, selIn.order, selIn.howMany)
    /\ UNCHANGED notSel

SelNext == TipSelect

----------------------------------------------------------------------------
(* Block store: foundation/blockchain/storage/disk/disk.go                 *)

BlockNums == 1..MaxNum
TxIDs == {"a"}
TxLists == UNION {[1..n -> TxIDs] : n \in 0..MaxTxs}
\* database.BlockData: the header's number and the transactions
Blocks == [number : BlockNums, txs : TxLists]
ZeroBlock == [number |-> 0, txs |-> <<>>]

\* a block file: whether it exists, and its bytes, a token each
NoFile == [exists |-> FALSE, bytes |-> <<>>]

Digits == <<"1", "2", "3", "4", "5", "6", "7", "8", "9">>
\* strconv.FormatUint(n, 10) and the decoder's reading of a number
FormatUint(n) == Digits[n]
IsNumber(tok) == \E n \in DOMAIN Digits : Digits[n] = tok
ParseUint(tok) == CHOOSE n \in DOMAIN Digits : Digits[n] = tok

\* json.MarshalIndent(blockData, "", "  ") (disk.go:42): an object holding the
\* number and the array of transactions
Marshal(b) == <<"{", FormatUint(b.number), "[">> \o b.txs \o <<"]", "}">>

\* json.NewDecoder(f).Decode(&blockData) (disk.go:71): reads the first JSON
\* value of the file and stops at its closing brace; bytes after it are not
\* looked at. An empty or cut-off file is a decode error.
Decode(bytes) ==
    LET n == Len(bytes)
        ends == {k \in 4..(n - 1) :
                    /\ bytes[k] = "]"
                    /\ bytes[k + 1] = "}"
                    /\ \A j \in 4..(k - 1) : bytes[j] \in TxIDs}
    IN  IF /\ n >= 5
           /\ bytes[1] = "{"
           /\ IsNumber(bytes[2])
           /\ bytes[3] = "["
           /\ ends # {}
        THEN LET k == CHOOSE e \in ends : TRUE IN
             [err |-> "nil",
              blk |-> [number |-> ParseUint(bytes[2]),
                       txs |-> SubSeq(bytes, 4, k - 1)]]
        ELSE [err |-> "DeserializationFailure", blk |-> ZeroBlock]

\* f.Write(data) on a file opened with os.O_CREATE|os.O_RDWR (disk.go:48, 54):
\* the bytes go in at offset 0 over what is there; what lies beyond them stays
WriteAt0(old, data) == data \o SubSeq(old, Len(data) + 1, Len(old))

\* Disk.GetBlock (disk.go:63-76) on the files fs; a missing block number is a
\* missing file
GetBlock(fs, num) ==
    IF num \notin DOMAIN fs \/ ~fs[num].exists
    THEN [err |-> "NotFound", blk |-> ZeroBlock]
    ELSE Decode(fs[num].bytes)

NoLast == [has |-> FALSE, blk |-> ZeroBlock]
NoStoreRet == [op |-> "none", n |-> 0, err |-> "nil", blk |-> ZeroBlock,
               marshalOk |-> TRUE, done |-> FALSE]

\* disk.New (disk.go:25-31) on a fresh path: an empty directory
InitStore ==
    /\ files = [n \in BlockNums |-> NoFile]
    /\ last = [n \in BlockNums |-> NoLast]
    /\ faults = {}
    /\ ret = NoStoreRet

InitIterator ==
    /\ itOn = FALSE
    /\ itCur = 0
    /\ itEoc = FALSE
    /\ itCalls = 0
    /\ itOk = 0
    /\ itFault = FALSE

notStore == <<txVars, selVars, iterVars, concVars>>

\* Disk.Write (disk.go:41-59). marshalOk: whether json.MarshalIndent succeeded;
\* io: whether the open or the write failed; a failed write leaves the first
\* k bytes written.
Write ==
    \E b \in Blocks, marshalOk \in BOOLEAN, io \in {"ok", "open", "write"} :
    \E k \in 0..(Len(Marshal(b)) - 1) :
        LET n == b.number
            data == Marshal(b)
            err == IF ~marshalOk THEN "nil"
                   ELSE IF io = "ok" THEN "nil" ELSE "IOFailure"
        IN  /\ (io # "write" \/ ~marshalOk) => k = 0
            /\ files' =
                 IF ~marshalOk \/ io = "open" THEN files
                 ELSE IF io = "write"
                 THEN [files EXCEPT ![n] =
                         [exists |-> TRUE,
                          bytes |-> WriteAt0(files[n].bytes, SubSeq(data, 1, k))]]
                 ELSE [files EXCEPT ![n] =
                         [exists |-> TRUE,
                          bytes |-> WriteAt0(files[n].bytes, data)]]
            /\ last' = IF err = "nil"
                       THEN [last EXCEPT ![n] = [has |-> TRUE, blk |-> b]]
                       ELSE last
            /\ faults' = faults \cup (IF ~marshalOk THEN {"marshal"}
                                     ELSE IF io # "ok" THEN {"io"} ELSE {})
            /\ ret' = [NoStoreRet EXCEPT !.op = "Write", !.n = n, !.err = err,
                                         !.blk = b, !.marshalOk = marshalOk]
            /\ UNCHANGED notStore

\* a caller reads a block: Disk.GetBlock (disk.go:63-76); fault: the file is
\* there and opening or reading it fails
ReadBlock ==
    \E num \in 1..(MaxNum + 1), fault \in BOOLEAN :
        LET r == IF fault /\ GetBlock(files, num).err # "NotFound"
                 THEN [err |-> "IOFailure", blk |-> ZeroBlock]
                 ELSE GetBlock(files, num)
        IN  /\ ret' = [NoStoreRet EXCEPT !.op = "GetBlock", !.n = num,
                                         !.err = r.err, !.blk = r.blk]
            /\ UNCHANGED <<files, last, faults, notStore>>

\* Disk.Reset (disk.go:85-91): RemoveAll, then MkdirAll. A RemoveAll that fails
\* has removed some of the files.
Reset ==
    \/ /\ files' = [n \in BlockNums |-> NoFile]
       /\ last' = [n \in BlockNums |-> NoLast]
       /\ ret' = [NoStoreRet EXCEPT !.op = "Reset"]
       /\ UNCHANGED <<faults, notStore>>
    \/ \E gone \in SUBSET BlockNums :
       /\ gone # BlockNums
       /\ files' = [n \in BlockNums |-> IF n \in gone THEN NoFile ELSE files[n]]
       /\ faults' = faults \cup {"io"}
       /\ ret' = [NoStoreRet EXCEPT !.op = "Reset", !.err = "IOFailure"]
       /\ UNCHANGED <<last, notStore>>

StoreNext == Write \/ ReadBlock \/ Reset

----------------------------------------------------------------------------
(* Claims about Write, GetBlock and Reset run one at a time.               *)

\* C5: GetBlock(n) returns the block of the last Write of number n that
\* reported success since the last Reset, and NotFound when there was none
\* (no open, write or remove having failed).
C5_StoreIsAMap ==
    ("io" \notin faults /\ ret.op = "GetBlock" /\ ret.err # "IOFailure"
        /\ ret.n \in BlockNums)
    => IF last[ret.n].has
       THEN ret.err = "nil" /\ ret.blk = last[ret.n].blk
       ELSE ret.err = "NotFound"

\* C7: a Write whose serialization fails returns SerializationFailure and
\* leaves the record as it was; a Write that returns success has left the
\* record holding its block.
C7_WriteReportsFailure ==
    [][ret'.op = "Write" =>
        /\ ~ret'.marshalOk =>
             /\ ret'.err = "SerializationFailure"
             /\ files'[ret'.n] = files[ret'.n]
        /\ ret'.err = "nil" =>
             /\ GetBlock(files', ret'.n).err = "nil"
             /\ GetBlock(files', ret'.n).blk = ret'.blk
    ]_vars

\* C9: after successful Writes only, each record is exactly the canonical
\* serialization of the last block written with its number.
C9_RecordIsCanonical ==
    faults = {} =>
        \A n \in BlockNums :
            files[n].exists =>
                /\ last[n].has
                /\ files[n].bytes = Marshal(last[n].blk)

----------------------------------------------------------------------------
(* Iteration: Disk.ForEach and diskIterator (disk.go:78-82, 101-127)       *)

\* Next reporting the end of the chain on the very call that finds no file: a
\* variant C6 tells from diskIterator.Next
diskIteratorNextEndOfChain(cur, eoc, fs, fault) ==
    IF eoc
    THEN [cur |-> cur, eoc |-> eoc, err |-> "EndOfChain", blk |-> ZeroBlock]
    ELSE LET r == IF fault /\ GetBlock(fs, cur + 1).err # "NotFound"
                  THEN [err |-> "IOFailure", blk |-> ZeroBlock]
                  ELSE GetBlock(fs, cur + 1)
         IN  [cur |-> cur + 1,
              eoc |-> (r.err = "NotFound"),
              err |-> IF r.err = "NotFound" THEN "EndOfChain" ELSE r.err,
              blk |-> r.blk]

\* diskIterator.Next (disk.go:111-122): the iterator's fields after the call,
\* and what the call returns
diskIteratorNext(cur, eoc, fs, fault) ==
    IF eoc
    THEN [cur |-> cur, eoc |-> eoc, err |-> "EndOfChain", blk |-> ZeroBlock]
    ELSE LET r == IF fault /\ GetBlock(fs, cur + 1).err # "NotFound"
                  THEN [err |-> "IOFailure", blk |-> ZeroBlock]
                  ELSE GetBlock(fs, cur + 1)
         IN  [cur |-> cur + 1,
              eoc |-> (r.err = "NotFound"),
              err |-> r.err,
              blk |-> r.blk]

\* the stores an iteration starts from: each block file is absent, or holds a
\* block written to a new file or over an earlier record, or was created by a
\* Write whose f.Write then failed
StartFiles ==
    [state : {"absent"}, over : {FALSE}, old : {<<>>}, new : {<<>>}]
    \cup [state : {"cut"}, over : {FALSE}, old : {<<>>}, new : {<<>>}]
    \cup [state : {"written"}, over : {FALSE}, old : {<<>>}, new : TxLists]
    \cup [state : {"written"}, over : {TRUE}, old : TxLists, new : TxLists]

StartFile(n, p) ==
    IF p.state = "absent" THEN NoFile
    ELSE IF p.state = "cut" THEN [exists |-> TRUE, bytes |-> <<>>]
    ELSE [exists |-> TRUE,
          bytes |-> WriteAt0(IF p.over
                             THEN Marshal([number |-> n, txs |-> p.old])
                             ELSE <<>>,
                             Marshal([number |-> n, txs |-> p.new]))]

InitIterStore ==
    \E p \in [BlockNums -> StartFiles] :
        /\ files = [n \in BlockNums |-> StartFile(n, p[n])]
        /\ last = [n \in BlockNums |->
                     IF p[n].state = "written"
                     THEN [has |-> TRUE, blk |-> [number |-> n, txs |-> p[n].new]]
                     ELSE NoLast]
        /\ faults = IF \E n \in BlockNums : p[n].state = "cut" THEN {"io"} ELSE {}
        /\ ret = NoStoreRet

notIter == <<txVars, selVars, concVars, files, last, faults>>

\* Disk.ForEach (disk.go:80-82): a fresh iterator, before block 1
ForEach ==
    /\ itOn' = TRUE
    /\ itCur' = 0
    /\ itEoc' = FALSE
    /\ itCalls' = 0
    /\ itOk' = 0
    /\ itFault' = FALSE
    /\ ret' = [NoStoreRet EXCEPT !.op = "ForEach"]
    /\ UNCHANGED notIter

\* a caller calls Next; fault: the file of the next block is there and opening
\* or reading it fails
IterNext ==
    /\ itOn
    /\ itCalls < MaxCalls
    /\ \E fault \in BOOLEAN :
        LET r == diskIteratorNext(itCur, itEoc, files, fault) IN
        /\ itCur' = r.cur
        /\ itEoc' = r.eoc
        /\ itCalls' = itCalls + 1
        /\ itOk' = IF r.err = "nil" THEN itOk + 1 ELSE itOk
        /\ itFault' = (itFault \/ r.err = "IOFailure")
        /\ itOn' = itOn
        /\ ret' = [NoStoreRet EXCEPT !.op = "Next", !.n = r.cur, !.err = r.err,
                                     !.blk = r.blk]
    /\ UNCHANGED notIter

\* diskIterator.Done (disk.go:125-127)
IterDone ==
    /\ itOn
    /\ ret' = [NoStoreRet EXCEPT !.op = "Done", !.done = itEoc]
    /\ UNCHANGED <<iterVars, notIter>>

IterStep == ForEach \/ IterNext \/ IterDone

\* the number of block files
ChainLen == Cardinality({n \in BlockNums : files[n].exists})

\* the store holds exactly the blocks 1..ChainLen
HoldsChain ==
    \A n \in BlockNums :
        files[n].exists =>
            /\ n <= ChainLen
            /\ last[n].has
            /\ GetBlock(files, n) = [err |-> "nil", blk |-> last[n].blk]

\* an iterator over such a store, none of whose reads has failed
CleanIteration == itOn /\ HoldsChain /\ ~itFault

\* C6 as stated: over blocks 1..N the k-th Next returns block k, the call after
\* the N-th returns EndOfChain, and Done() is false before that call and true
\* from then on.
C6_CallAfterLastIsEndOfChain ==
    CleanIteration =>
        /\ (ret.op = "Next" /\ itCalls <= ChainLen) =>
              /\ ret.err = "nil"
              /\ ret.blk = last[itCalls].blk
              /\ ret.blk.number = itCalls
        /\ (ret.op = "Next" /\ itCalls = ChainLen + 1) => ret.err = "EndOfChain"
        /\ itEoc <=> (itCalls > ChainLen)
        /\ ret.op = "Done" => (ret.done <=> (itCalls > ChainLen))

\* C6 amended: the call after the N-th returns the NotFound error of the
\* lookup of block N+1 and latches the iterator; every call after that one
\* returns EndOfChain.
C6_CallAfterLastIsNotFound ==
    CleanIteration =>
        /\ (ret.op = "Next" /\ itCalls <= ChainLen) =>
              /\ ret.err = "nil"
              /\ ret.blk = last[itCalls].blk
              /\ ret.blk.number = itCalls
        /\ (ret.op = "Next" /\ itCalls = ChainLen + 1) => ret.err = "NotFound"
        /\ (ret.op = "Next" /\ itCalls > ChainLen + 1) => ret.err = "EndOfChain"
        /\ itEoc <=> (itCalls > ChainLen)
        /\ ret.op = "Done" => (ret.done <=> (itCalls > ChainLen))

\* C6's case: a chain of MaxNum blocks read to its end and one call beyond
C6_Witness ==
    /\ CleanIteration
    /\ ChainLen = MaxNum
    /\ ret.op = "Next"
    /\ itCalls = ChainLen + 2
    /\ itOk = ChainLen
    /\ ret.err = "EndOfChain"

\* C10: over a store holding blocks 1..N, a Next that fails with an error other
\* than NotFound does not latch the iterator, and the blocks the iterator
\* returns are numbered 1, 2, 3, ... in order with none missing, whatever reads
\* failed in between.
C10_NoBlockSkipped ==
    (itOn /\ HoldsChain /\ ret.op = "Next") =>
        /\ ret.err \in {"IOFailure", "DeserializationFailure"} => ~itEoc
        /\ ret.err = "nil" => ret.blk.number = itOk

----------------------------------------------------------------------------
(* Two callers in Write for the same block number at once.                 *)

Writers == {1, 2}

InitConc ==
    /\ cFile = NoFile
    /\ cPc = [w \in Writers |-> "start"]
    /\ cBlk = [w \in Writers |-> ZeroBlock]
    /\ cOrder = <<>>

\* two writers about to start; the file is missing, or holds a block written
\* earlier
InitWriters ==
    /\ cFile \in {NoFile} \cup
                {[exists |-> TRUE, bytes |-> Marshal(b)] : b \in {x \in Blocks : x.number = 1}}
    /\ cPc = [w \in Writers |-> "start"]
    /\ cBlk = [w \in Writers |-> ZeroBlock]
    /\ cOrder = <<>>

notConc == <<txVars, selVars, storeVars, iterVars>>

\* disk.go:42: the caller's block is serialized
CMarshal(w) ==
    /\ cPc[w] = "start"
    /\ \E b \in Blocks :
        /\ b.number = 1      \* both write block 1
        /\ cBlk' = [cBlk EXCEPT ![w] = b]
    /\ cPc' = [cPc EXCEPT ![w] = "marshalled"]
    /\ UNCHANGED <<cFile, cOrder, notConc>>

\* disk.go:48: os.OpenFile with O_CREATE|O_RDWR creates the file if it is
\* missing and leaves its bytes alone; the handle's offset is 0
COpen(w) ==
    /\ cPc[w] = "marshalled"
    /\ cFile' = [cFile EXCEPT !.exists = TRUE]
    /\ cPc' = [cPc EXCEPT ![w] = "open"]
    /\ UNCHANGED <<cBlk, cOrder, notConc>>

\* disk.go:54: f.Write(data), one write at the handle's offset
CWrite(w) ==
    /\ cPc[w] = "open"
    /\ cFile' = [cFile EXCEPT !.bytes = WriteAt0(cFile.bytes, Marshal(cBlk[w]))]
    /\ cOrder' = Append(cOrder, w)
    /\ cPc' = [cPc EXCEPT ![w] = "written"]
    /\ UNCHANGED <<cBlk, notConc>>

\* disk.go:52, 58: the deferred f.Close() and the return
CClose(w) ==
    /\ cPc[w] = "written"
    /\ cPc' = [cPc EXCEPT ![w] = "done"]
    /\ UNCHANGED <<cFile, cBlk, cOrder, notConc>>

ConcNext == \E w \in Writers : CMarshal(w) \/ COpen(w) \/ CWrite(w) \/ CClose(w)

\* C8: once both writers have finished, the record is exactly the
\* serialization of the block whose write ran last.
C8_LastWriterWins ==
    (\A w \in Writers : cPc[w] = "done") =>
        cFile.bytes = Marshal(cBlk[cOrder[Len(cOrder)]])

----------------------------------------------------------------------------
(* Specifications.                                                         *)

Init == InitTx /\ InitSel /\ InitStore /\ InitIterator /\ InitConc
\* the selector with a mempool snapshot in hand
InitSelection == InitTx /\ InitSelInputs /\ InitStore /\ InitIterator /\ InitConc
\* a store that earlier Writes have left, about to be iterated
InitIteration == InitTx /\ InitSel /\ InitIterStore /\ InitIterator /\ InitConc
\* two callers about to Write
InitConcurrent == InitTx /\ InitSel /\ InitStore /\ InitIterator /\ InitWriters

SpecTx == Init /\ [][TxNext]_vars
SpecSel == InitSelection /\ [][SelNext]_vars
SpecStore == Init /\ [][StoreNext]_vars
SpecIter == InitIteration /\ [][IterStep]_vars
SpecConc == InitConcurrent /\ [][ConcNext]_vars

====
